---------------------------- MODULE Spec2Model ----------------------------
(***************************************************************************)
(* Model of validate.FrontdoorSettings                                     *)
(* (azurerm/internal/services/frontdoor/validate/validate.go).             *)
(*                                                                         *)
(* The validator walks a configuration tree made of Go maps and slices.    *)
(* A Go map is modelled as a record that carries, next to its values, the  *)
(* set `keys` of the keys that are present: indexing an absent key yields  *)
(* the nil interface, and a single-value type assertion on nil panics.     *)
(* An interface value is modelled as a sequence: <<>> is nil, <<v>> holds  *)
(* v.  One call of FrontdoorSettings is a run of the state machine: one    *)
(* action per check of the function, in the order of the code.             *)
(***************************************************************************)
EXTENDS Naturals, Sequences, FiniteSets

VARIABLES
    d,      \* the configuration the call reads (the *schema.ResourceDiff)
    pc,     \* the check the call executes next
    i,      \* index of the element the current loop is at (1-based)
    found,  \* the local `found` of the loop bodies
    err,    \* the value the call returns (meaningful when pc = "done")
    last    \* a completed earlier call kept by the caller: its d and err

vars == <<d, pc, i, found, err, last>>

(***************************************************************************)
(* Go maps, interfaces and formatting                                      *)
(***************************************************************************)

\* m[k] present in the map
Has(m, k) == k \in m.keys

\* m[k] as an interface value: nil when the key is absent
Index(m, k) == IF Has(m, k) THEN <<m[k]>> ELSE <<>>

\* fmt's %q of an interface value (the quotes are left out)
Fmt(v) == IF v = <<>> THEN "%!q(<nil>)" ELSE v[1]

\* d.Get(k): the schema reader returns the zero value of a list that is not set
Get(cfg, k) == IF Has(cfg, k) THEN cfg[k] ELSE <<>>

(***************************************************************************)
(* Errors.  Each fmt.Errorf of the function is a record: the kind of the   *)
(* violation, the section and the name of the offending entity, and for a  *)
(* reference the field that holds it and the name it holds.                *)
(***************************************************************************)

Violation(kind, section, name, field, ref) ==
    [kind |-> kind, section |-> section, name |-> name, field |-> field, ref |-> ref]

NoErr == Violation("nil", "", "", "", "")

\* a failed type assertion: the call ends without returning
Panic == Violation("panic", "", "", "", "")

CertificateSourceAzureKeyVault == "AzureKeyVault"

(***************************************************************************)
(* package helper, by its contract: a name lookup in a collection and a    *)
(* test for populated key-vault fields                                     *)
(***************************************************************************)

\* helper.DoesBackendPoolExists: nil when a pool carries the name
DoesBackendPoolExists(backendPoolName, backendPools) ==
    IF \E j \in 1..Len(backendPools) : Index(backendPools[j], "name") = <<backendPoolName>>
    THEN NoErr
    ELSE Violation("DanglingReference", "", "", "backend_pool_name", backendPoolName)

\* a key-vault field counts as populated when it is present and not empty
Populated(m, k) == Has(m, k) /\ m[k] # ""

\* helper.AzureKeyVaultCertificateHasValues: all three fields populated
\* (MatchAllKeys) or at least one of them
AzureKeyVaultCertificateHasValues(customHttpsConfiguration, MatchAllKeys) ==
    LET ks == {"azure_key_vault_certificate_secret_name",
               "azure_key_vault_certificate_secret_version",
               "azure_key_vault_certificate_vault_id"}
    IN  IF MatchAllKeys
        THEN \A k \in ks : Populated(customHttpsConfiguration, k)
        ELSE \E k \in ks : Populated(customHttpsConfiguration, k)

(***************************************************************************)
(* The checks of FrontdoorSettings, each returning NoErr, a violation or   *)
(* Panic.                                                                  *)
(***************************************************************************)

\* CheckFrontendPresence without its check
CheckFrontendPresence_Skipped(configFrontendEndpoints) == NoErr

\* line 44
CheckFrontendPresence(configFrontendEndpoints) ==
    IF Len(configFrontendEndpoints) = 0
    THEN Violation("MissingRequiredCollection", "frontend_endpoint", "", "", "")
    ELSE NoErr

\* CheckConfigurationType without Check 1
CheckConfigurationType_NoConflict(routingRule) ==
    IF Len(routingRule.redirect_configuration) = 0
       /\ Len(routingRule.forwarding_configuration) = 0
    THEN Violation("MissingConfigurationBlock", "routing_rule",
                   Fmt(Index(routingRule, "name")), "", "")
    ELSE NoErr

\* lines 50-65: Check 0 and Check 1
CheckConfigurationType(routingRule) ==
    IF ~Has(routingRule, "redirect_configuration") \/ ~Has(routingRule, "forwarding_configuration")
    THEN Panic
    ELSE LET routingRuleName == Fmt(Index(routingRule, "name"))
             redirectConfig == routingRule.redirect_configuration
             forwardConfig == routingRule.forwarding_configuration
         IN  IF Len(redirectConfig) = 0 /\ Len(forwardConfig) = 0
             THEN Violation("MissingConfigurationBlock", "routing_rule", routingRuleName, "", "")
             ELSE IF Len(redirectConfig) = 1 /\ Len(forwardConfig) = 1
             THEN Violation("ConflictingConfigurationBlocks", "routing_rule", routingRuleName, "", "")
             ELSE NoErr

\* lines 67-73: Check 2
CheckBackendPoolName(routingRule, backendPools) ==
    LET forwardConfig == routingRule.forwarding_configuration
    IN  IF Len(forwardConfig) > 0
        THEN LET fc == forwardConfig[1]
             IN  IF ~Has(fc, "backend_pool_name")
                 THEN Panic
                 ELSE LET e == DoesBackendPoolExists(fc.backend_pool_name, backendPools)
                      IN  IF e # NoErr
                          THEN Violation(e.kind, "routing_rule",
                                         Fmt(Index(routingRule, "name")), e.field, e.ref)
                          ELSE NoErr
        ELSE NoErr

\* lines 86-95: the scan of the defined frontend endpoints for one name
FrontendFound(fnd, routingRulefrontendName, configFrontendEndpoints) ==
    fnd \/ \E j \in 1..Len(configFrontendEndpoints) :
               <<routingRulefrontendName>> = Index(configFrontendEndpoints[j], "name")

\* ClearFound leaving found as it is
ClearFound_Missing(fnd) == fnd

\* line 84: found = false, before the scan for each name of the rule
ClearFound(fnd) == FALSE

\* lines 78-100: the loop over the rule's frontend names, from position k on;
\* the result is <<error, found>>
RECURSIVE ScanRuleFrontends(_, _, _, _, _)
ScanRuleFrontends(routingRuleName, routingRuleFrontends, k, configFrontendEndpoints, fnd) ==
    IF k > Len(routingRuleFrontends)
    THEN <<NoErr, fnd>>
    ELSE LET routingRulefrontendName == routingRuleFrontends[k]
             fnd1 == FrontendFound(ClearFound(fnd), routingRulefrontendName,
                                   configFrontendEndpoints)
         IN  IF ~fnd1
             THEN <<Violation("DanglingReference", "routing_rule", routingRuleName,
                              "frontend_endpoints", routingRulefrontendName), fnd1>>
             ELSE ScanRuleFrontends(routingRuleName, routingRuleFrontends, k + 1,
                                    configFrontendEndpoints, fnd1)

\* lines 75-103: Check 3; the result is <<error, found>>
CheckFrontendEndpoints(routingRule, configFrontendEndpoints, fnd) ==
    IF ~Has(routingRule, "frontend_endpoints")
    THEN <<Panic, fnd>>
    ELSE LET routingRuleName == Fmt(Index(routingRule, "name"))
             routingRuleFrontends == routingRule.frontend_endpoints
         IN  IF Len(routingRuleFrontends) > 0
             THEN ScanRuleFrontends(routingRuleName, routingRuleFrontends, 1,
                                    configFrontendEndpoints, fnd)
             ELSE <<Violation("MissingRequiredCollection", "routing_rule", routingRuleName,
                              "frontend_endpoints", ""), fnd>>

\* SettingsFound comparing the first settings block only
SettingsFound_FirstOnly(fnd, settings, wanted) ==
    fnd \/ (Len(settings) > 0 /\ Index(settings[1], "name") = wanted)

\* lines 116-124 and 135-143: the scan of a settings collection for the name
\* a pool refers to; both sides are interface values
SettingsFound(fnd, settings, wanted) ==
    fnd \/ \E j \in 1..Len(settings) : Index(settings[j], "name") = wanted

\* lines 112-129: the result is <<error, found>>
CheckLoadBalancingName(backendPool, loadBalancingSettings) ==
    LET backendPoolLoadBalancingName == Index(backendPool, "load_balancing_name")
        fnd0 == FALSE
    IN  IF Len(loadBalancingSettings) > 0
        THEN LET fnd == SettingsFound(fnd0, loadBalancingSettings, backendPoolLoadBalancingName)
             IN  IF ~fnd
                 THEN <<Violation("DanglingReference", "backend_pool",
                                  Fmt(Index(backendPool, "name")), "load_balancing_name",
                                  Fmt(backendPoolLoadBalancingName)), fnd>>
                 ELSE <<NoErr, fnd>>
        ELSE <<NoErr, fnd0>>

\* ResetFound leaving found as it is
ResetFound_Missing(fnd) == fnd

\* line 131: found = false, between the two scans of a pool
ResetFound(fnd) == FALSE

\* lines 131-148: the result is <<error, found>>
CheckHealthProbeName(backendPool, healthProbeSettings, fnd) ==
    LET backendPoolHealthProbeName == Index(backendPool, "health_probe_name")
        fnd0 == ResetFound(fnd)
    IN  IF Len(healthProbeSettings) > 0
        THEN LET fnd1 == SettingsFound(fnd0, healthProbeSettings, backendPoolHealthProbeName)
             IN  IF ~fnd1
                 THEN <<Violation("DanglingReference", "backend_pool",
                                  Fmt(Index(backendPool, "name")), "health_probe_name",
                                  Fmt(backendPoolHealthProbeName)), fnd1>>
                 ELSE <<NoErr, fnd1>>
        ELSE <<NoErr, fnd0>>

\* CheckCertificateSource asking for any key-vault field where all are required
CheckCertificateSource_AnyKey(FrontendName, customHttpsConfiguration) ==
    IF Index(customHttpsConfiguration, "certificate_source") = <<CertificateSourceAzureKeyVault>>
    THEN IF ~AzureKeyVaultCertificateHasValues(customHttpsConfiguration, FALSE)
         THEN Violation("IncompleteTlsConfig", "frontend_endpoint", FrontendName,
                        "custom_https_configuration", "")
         ELSE NoErr
    ELSE IF AzureKeyVaultCertificateHasValues(customHttpsConfiguration, FALSE)
         THEN Violation("ExtraneousTlsConfig", "frontend_endpoint", FrontendName,
                        "custom_https_configuration", "")
         ELSE NoErr

\* lines 162-172: the certificate source against the key-vault fields
CheckCertificateSource(FrontendName, customHttpsConfiguration) ==
    LET certificateSource == Index(customHttpsConfiguration, "certificate_source")
    IN  IF certificateSource = <<CertificateSourceAzureKeyVault>>
        THEN IF ~AzureKeyVaultCertificateHasValues(customHttpsConfiguration, TRUE)
             THEN Violation("IncompleteTlsConfig", "frontend_endpoint", FrontendName,
                            "custom_https_configuration", "")
             ELSE NoErr
        ELSE IF AzureKeyVaultCertificateHasValues(customHttpsConfiguration, FALSE)
             THEN Violation("ExtraneousTlsConfig", "frontend_endpoint", FrontendName,
                            "custom_https_configuration", "")
             ELSE NoErr

\* CheckCustomHttps looking at the block before the enabled flag
CheckCustomHttps_SourceFirst(configFrontend) ==
    LET FrontendName == Fmt(Index(configFrontend, "name"))
        customHttpsEnabled == configFrontend.custom_https_provisioning_enabled
        chc == configFrontend.custom_https_configuration
    IN  IF Len(chc) > 0
        THEN LET e == CheckCertificateSource(FrontendName, chc[1])
             IN  IF e # NoErr THEN e
                 ELSE IF ~customHttpsEnabled
                 THEN Violation("InvalidTlsState", "frontend_endpoint", FrontendName,
                                "custom_https_configuration", "")
                 ELSE NoErr
        ELSE IF customHttpsEnabled
             THEN Violation("MissingConfigurationBlock", "frontend_endpoint",
                            FrontendName, "custom_https_configuration", "")
             ELSE NoErr

\* lines 153-176: the body of the loop over the frontend endpoints
CheckCustomHttps(configFrontend) ==
    IF configFrontend.keys # {}
    THEN LET FrontendName == Fmt(Index(configFrontend, "name"))
         IN  IF ~Has(configFrontend, "custom_https_provisioning_enabled")
                \/ ~Has(configFrontend, "custom_https_configuration")
             THEN Panic
             ELSE LET customHttpsEnabled == configFrontend.custom_https_provisioning_enabled
                      chc == configFrontend.custom_https_configuration
                  IN  IF Len(chc) > 0
                      THEN IF ~customHttpsEnabled
                           THEN Violation("InvalidTlsState", "frontend_endpoint", FrontendName,
                                          "custom_https_configuration", "")
                           ELSE CheckCertificateSource(FrontendName, chc[1])
                      ELSE IF customHttpsEnabled
                           THEN Violation("MissingConfigurationBlock", "frontend_endpoint",
                                          FrontendName, "custom_https_configuration", "")
                           ELSE NoErr
    ELSE NoErr

(***************************************************************************)
(* Control flow: the loop headers of lines 49, 107 and 152, as the         *)
(* position <<pc, i>> the call goes to.                                    *)
(***************************************************************************)

\* line 152: the endpoint loop at index k, or the return of line 179
EndpointLoop(cfg, k) ==
    IF k <= Len(Get(cfg, "frontend_endpoint")) THEN <<"custom_https", k>> ELSE <<"return", 0>>

\* line 107: the pool loop at index k, or on to the endpoint loop
PoolLoop(cfg, k) ==
    IF k <= Len(Get(cfg, "backend_pool")) THEN <<"load_balancing", k>> ELSE EndpointLoop(cfg, 1)

\* line 49: the rule loop at index k, or on to the pool loop
RuleLoop(cfg, k) ==
    IF k <= Len(Get(cfg, "routing_rule")) THEN <<"config_type", k>> ELSE PoolLoop(cfg, 1)

\* Outcome keeping the error of an earlier call when the check passes
Outcome_Sticky(e, next, fnd) ==
    /\ err' = IF e # NoErr THEN e ELSE err
    /\ pc' = IF e = Panic THEN "panicked" ELSE IF e # NoErr THEN "done" ELSE next[1]
    /\ i' = IF e # NoErr THEN i ELSE next[2]
    /\ found' = fnd
    /\ UNCHANGED <<d, last>>

\* Outcome that records the error and goes on with the next check
Outcome_Accumulate(e, next, fnd) ==
    /\ err' = IF e # NoErr THEN e ELSE err
    /\ pc' = next[1]
    /\ i' = next[2]
    /\ found' = fnd
    /\ UNCHANGED <<d, last>>

\* a check's outcome: return the error, or go on at position `next`
Outcome(e, next, fnd) ==
    /\ err' = e
    /\ pc' = IF e = Panic THEN "panicked" ELSE IF e # NoErr THEN "done" ELSE next[1]
    /\ i' = IF e # NoErr THEN i ELSE next[2]
    /\ found' = fnd
    /\ UNCHANGED <<d, last>>

(***************************************************************************)
(* The configurations the call is given.  The schema reader fills every    *)
(* key of every block with the value set or the zero value of its type, so *)
(* every map of a configuration read through d.Get has all its keys.       *)
(***************************************************************************)

MaxRules == 2
MaxFrontends == 2
MaxPools == 2
MaxSettings == 2
MaxEndpoints == 2

\* sequences over S of length at most n
RECURSIVE SeqsUpTo(_, _)
SeqsUpTo(S, n) ==
    IF n = 0 THEN {<<>>}
    ELSE LET shorter == SeqsUpTo(S, n - 1)
         IN  shorter \cup {Append(s, x) : s \in {t \in shorter : Len(t) = n - 1}, x \in S}

\* sequences of length at most n: the last element from Full, those before from Basic
Tailed(Basic, Full, n) ==
    IF n = 0 THEN {<<>>}
    ELSE {<<>>} \cup {Append(s, x) : s \in SeqsUpTo(Basic, n - 1), x \in Full}

RoutingRule(name, frontends, redirect, forward) ==
    [keys |-> {"name", "frontend_endpoints", "redirect_configuration", "forwarding_configuration"},
     name |-> name, frontend_endpoints |-> frontends,
     redirect_configuration |-> redirect, forwarding_configuration |-> forward]

RedirectConfiguration == [keys |-> {"redirect_type"}, redirect_type |-> "Found"]

ForwardingConfiguration(pool) == [keys |-> {"backend_pool_name"}, backend_pool_name |-> pool]

FrontendEndpoint(name, enabled, chc) ==
    [keys |-> {"name", "custom_https_provisioning_enabled", "custom_https_configuration"},
     name |-> name, custom_https_provisioning_enabled |-> enabled,
     custom_https_configuration |-> chc]

CustomHttpsConfiguration(source, secretName, secretVersion, vaultId) ==
    [keys |-> {"certificate_source", "azure_key_vault_certificate_secret_name",
               "azure_key_vault_certificate_secret_version",
               "azure_key_vault_certificate_vault_id"},
     certificate_source |-> source,
     azure_key_vault_certificate_secret_name |-> secretName,
     azure_key_vault_certificate_secret_version |-> secretVersion,
     azure_key_vault_certificate_vault_id |-> vaultId]

BackendPool(name, lb, hp) ==
    [keys |-> {"name", "load_balancing_name", "health_probe_name"},
     name |-> name, load_balancing_name |-> lb, health_probe_name |-> hp]

Settings(name) == [keys |-> {"name"}, name |-> name]

Configuration(endpoints, rules, pools, lbs, hps) ==
    [keys |-> {"frontend_endpoint", "routing_rule", "backend_pool",
               "backend_pool_load_balancing", "backend_pool_health_probe"},
     frontend_endpoint |-> endpoints, routing_rule |-> rules, backend_pool |-> pools,
     backend_pool_load_balancing |-> lbs, backend_pool_health_probe |-> hps]

FrontendNames == {"fe1", "FE1", "fe2"}
RuleNames == <<"rr1", "rr2", "rr3", "rr4">>
LoadBalancingNames == <<"lb1", "lb2", "lb3", "lb4">>
HealthProbeNames == <<"hp1", "hp2", "hp3", "hp4">>

\* the rules of a list named by their position
RECURSIVE Named(_, _)
Named(rules, k) ==
    IF k > Len(rules) THEN <<>>
    ELSE <<[rules[k] EXCEPT !.name = RuleNames[k]]>> \o Named(rules, k + 1)

RuleFull ==
    {RoutingRule("", fes, rc, fc) :
        fes \in SeqsUpTo(FrontendNames, MaxFrontends),
        rc \in {<<>>, <<RedirectConfiguration>>},
        fc \in {<<>>, <<ForwardingConfiguration("bp1")>>, <<ForwardingConfiguration("bp-missing")>>}}

RuleBasic ==
    {RoutingRule("", <<"fe1">>, <<>>, <<ForwardingConfiguration("bp1")>>),
     RoutingRule("", <<"fe1">>, <<>>, <<>>),
     RoutingRule("", <<"fe1">>, <<RedirectConfiguration>>, <<ForwardingConfiguration("bp1")>>),
     RoutingRule("", <<"fe2">>, <<RedirectConfiguration>>, <<>>),
     RoutingRule("", <<"fe1">>, <<>>, <<ForwardingConfiguration("bp-missing")>>),
     RoutingRule("", <<>>, <<RedirectConfiguration>>, <<>>)}

RuleLists == {Named(s, 1) : s \in Tailed(RuleBasic, RuleFull, MaxRules)}

KeyVaultCertificate == CustomHttpsConfiguration(CertificateSourceAzureKeyVault, "n", "v", "id")

EndpointFull ==
    {FrontendEndpoint(n, en, chc) :
        n \in {"fe1", "FE1"},
        en \in BOOLEAN,
        chc \in {<<>>} \cup
                {<<CustomHttpsConfiguration(src, a, b, c)>> :
                    src \in {CertificateSourceAzureKeyVault, "FrontDoor"},
                    a \in {"", "n"}, b \in {"", "v"}, c \in {"", "id"}}}

EndpointBasic ==
    {FrontendEndpoint("fe1", FALSE, <<>>),
     FrontendEndpoint("FE1", FALSE, <<>>),
     FrontendEndpoint("fe1", TRUE, <<>>),
     FrontendEndpoint("fe1", TRUE, <<KeyVaultCertificate>>),
     FrontendEndpoint("fe1", FALSE, <<KeyVaultCertificate>>)}

EndpointLists == Tailed(EndpointBasic, EndpointFull, MaxEndpoints)

RuleTiny ==
    {<<>>,
     <<RoutingRule("rr1", <<"fe1">>, <<>>, <<ForwardingConfiguration("bp1")>>)>>,
     <<RoutingRule("rr1", <<"FE1">>, <<RedirectConfiguration>>, <<>>)>>}

RuleAround ==
    RuleTiny \cup
    {<<RoutingRule("rr1", <<"fe1">>, <<RedirectConfiguration>>, <<ForwardingConfiguration("bp1")>>)>>,
     <<RoutingRule("rr1", <<"fe1">>, <<RedirectConfiguration>>, <<>>),
       RoutingRule("rr2", <<"fe1">>, <<>>, <<ForwardingConfiguration("bp2")>>)>>}

PoolFull ==
    {BackendPool(n, lb, hp) :
        n \in {"bp1", "bp2"},
        lb \in {"lb1", "lb2", "LB1", ""},
        hp \in {"hp1", "hp2", "HP1", ""}}

PoolBasic ==
    {BackendPool("bp1", "lb1", "hp1"),
     BackendPool("bp1", "LB1", "hp1"),
     BackendPool("bp1", "lb1", "HP1")}

PoolLists == Tailed(PoolBasic, PoolFull, MaxPools)

EndpointTiny ==
    {<<FrontendEndpoint("fe1", FALSE, <<>>)>>,
     <<FrontendEndpoint("fe1", TRUE, <<>>)>>,
     <<>>}

PoolTiny ==
    {<<>>,
     <<BackendPool("bp1", "lb1", "hp1")>>,
     <<BackendPool("bp1", "LB1", "hp1")>>}

EndpointAround ==
    EndpointTiny \cup
    {<<FrontendEndpoint("fe1", FALSE, <<>>), FrontendEndpoint("FE1", FALSE, <<>>)>>,
     <<FrontendEndpoint("fe1", FALSE, <<KeyVaultCertificate>>)>>}

PoolAround ==
    PoolTiny \cup
    {<<BackendPool("bp1", "lb1", "HP1")>>,
     <<BackendPool("bp2", "lb1", "hp1")>>}

\* the settings blocks named by the first k names
RECURSIVE SettingsList(_, _)
SettingsList(names, k) ==
    IF k = 0 THEN <<>> ELSE Append(SettingsList(names, k - 1), Settings(names[k]))

LoadBalancingLists == {SettingsList(LoadBalancingNames, k) : k \in 0..MaxSettings}
HealthProbeLists == {SettingsList(HealthProbeNames, k) : k \in 0..MaxSettings}

\* every collection of rules, with a few endpoints and pools around it
RuleConfig(cfg) ==
    \E fe \in EndpointAround, rr \in RuleLists, bp \in PoolAround :
        cfg = Configuration(fe, rr, bp, SettingsList(LoadBalancingNames, 1),
                            SettingsList(HealthProbeNames, 1))

\* every collection of pools and settings, with a few rules and endpoints around it
PoolConfig(cfg) ==
    \E fe \in EndpointAround \ {<<>>}, rr \in RuleAround \ {<<>>}, bp \in PoolLists,
       lbs \in LoadBalancingLists, hps \in HealthProbeLists :
        cfg = Configuration(fe, rr, bp, lbs, hps)

\* every collection of endpoints, with a few rules and pools around it
EndpointConfig(cfg) ==
    \E fe \in EndpointLists, rr \in RuleAround, bp \in PoolAround :
        cfg = Configuration(fe, rr, bp, SettingsList(LoadBalancingNames, 1),
                            SettingsList(HealthProbeNames, 1))

(***************************************************************************)
(* One call of FrontdoorSettings                                           *)
(***************************************************************************)

Init ==
    /\ RuleConfig(d) \/ PoolConfig(d) \/ EndpointConfig(d)
    /\ pc = "entry"
    /\ i = 0
    /\ found = FALSE
    /\ err = NoErr
    /\ last = <<>>

\* lines 38-46
FrontendPresence ==
    /\ pc = "entry"
    /\ Outcome(CheckFrontendPresence(Get(d, "frontend_endpoint")), RuleLoop(d, 1), found)

\* lines 49-65
ConfigurationType ==
    /\ pc = "config_type"
    /\ Outcome(CheckConfigurationType(Get(d, "routing_rule")[i]), <<"backend_pool_name", i>>, FALSE)

\* lines 67-73
BackendPoolName ==
    /\ pc = "backend_pool_name"
    /\ Outcome(CheckBackendPoolName(Get(d, "routing_rule")[i], Get(d, "backend_pool")),
               <<"frontend_endpoints", i>>, found)

\* lines 75-104
FrontendEndpoints ==
    /\ pc = "frontend_endpoints"
    /\ LET r == CheckFrontendEndpoints(Get(d, "routing_rule")[i], Get(d, "frontend_endpoint"), found)
       IN  Outcome(r[1], RuleLoop(d, i + 1), r[2])

\* lines 107-129
LoadBalancingName ==
    /\ pc = "load_balancing"
    /\ LET r == CheckLoadBalancingName(Get(d, "backend_pool")[i], Get(d, "backend_pool_load_balancing"))
       IN  Outcome(r[1], <<"health_probe", i>>, r[2])

\* lines 131-149
HealthProbeName ==
    /\ pc = "health_probe"
    /\ LET r == CheckHealthProbeName(Get(d, "backend_pool")[i], Get(d, "backend_pool_health_probe"), found)
       IN  Outcome(r[1], PoolLoop(d, i + 1), r[2])

\* lines 152-177
CustomHttps ==
    /\ pc = "custom_https"
    /\ Outcome(CheckCustomHttps(Get(d, "frontend_endpoint")[i]), EndpointLoop(d, i + 1), found)

\* line 179
ReturnNil ==
    /\ pc = "return"
    /\ Outcome(NoErr, <<"done", 0>>, found)

Next ==
    \/ FrontendPresence
    \/ ConfigurationType
    \/ BackendPoolName
    \/ FrontendEndpoints
    \/ LoadBalancingName
    \/ HealthProbeName
    \/ CustomHttps
    \/ ReturnNil

Spec == Init /\ [][Next]_vars

(***************************************************************************)
(* Repeated calls: the caller validates one configuration after another    *)
(* and may keep what an earlier call was given and returned.               *)
(***************************************************************************)

ReplayConfigs ==
    {Configuration(fe, rr, bp, SettingsList(LoadBalancingNames, 1), SettingsList(HealthProbeNames, 1)) :
        fe \in EndpointTiny, rr \in RuleTiny, bp \in PoolTiny}

InitReplay ==
    /\ d \in ReplayConfigs
    /\ pc = "entry"
    /\ i = 0
    /\ found = FALSE
    /\ err = NoErr
    /\ last = <<>>

\* line 37: the next call, on a configuration of its own; the variables of the
\* function body are assigned by the body before it reads them
Call ==
    /\ pc = "done"
    /\ \E cfg \in ReplayConfigs : d' = cfg
    /\ pc' = "entry"
    /\ last' \in {last, <<[d |-> d, err |-> err]>>}
    /\ UNCHANGED <<i, found, err>>

NextReplay == Next \/ Call

SpecReplay == InitReplay /\ [][NextReplay]_vars

(***************************************************************************)
(* Configuration trees in which an optional block or collection that is    *)
(* not set is missing from its map instead of being there and empty.       *)
(***************************************************************************)

\* m with any of the keys of `optional` whose value is empty left out
DropEmpty(m, optional) ==
    {[m EXCEPT !.keys = @ \ S] : S \in SUBSET {k \in optional : m[k] = <<>>}}

\* the lists that hold, element by element, such a variant of the element of s
RECURSIVE DropEmptyEach(_, _)
DropEmptyEach(s, optional) ==
    IF s = <<>> THEN {<<>>}
    ELSE {<<h>> \o t : h \in DropEmpty(Head(s), optional),
                       t \in DropEmptyEach(Tail(s), optional)}

AbsentConfigs ==
    UNION {DropEmpty(Configuration(fe, rr, bp, lbs, hps),
                     {"routing_rule", "backend_pool", "backend_pool_load_balancing",
                      "backend_pool_health_probe"}) :
               fe \in UNION {DropEmptyEach(s, {"custom_https_configuration"}) : s \in EndpointTiny},
               rr \in UNION {DropEmptyEach(s, {"redirect_configuration", "forwarding_configuration"}) :
                                 s \in RuleTiny},
               bp \in PoolTiny,
               lbs \in {<<>>, SettingsList(LoadBalancingNames, 1)},
               hps \in {<<>>, SettingsList(HealthProbeNames, 1)}}

InitAbsent ==
    /\ d \in AbsentConfigs
    /\ pc = "entry"
    /\ i = 0
    /\ found = FALSE
    /\ err = NoErr
    /\ last = <<>>

SpecAbsent == InitAbsent /\ [][Next]_vars

(***************************************************************************)
(* The data model's statements about a configuration c, stated on the      *)
(* configuration alone.                                                    *)
(***************************************************************************)

Endpoints(c) == c.frontend_endpoint
Rules(c) == c.routing_rule
Pools(c) == c.backend_pool

Present(block) == block # <<>>

KeyVaultFields(chc) ==
    {chc.azure_key_vault_certificate_secret_name,
     chc.azure_key_vault_certificate_secret_version,
     chc.azure_key_vault_certificate_vault_id}

EndpointNames(c) == {Endpoints(c)[j].name : j \in 1..Len(Endpoints(c))}
PoolNames(c) == {Pools(c)[j].name : j \in 1..Len(Pools(c))}
LoadBalancingSettingsNames(c) ==
    {c.backend_pool_load_balancing[j].name : j \in 1..Len(c.backend_pool_load_balancing)}
HealthProbeSettingsNames(c) ==
    {c.backend_pool_health_probe[j].name : j \in 1..Len(c.backend_pool_health_probe)}

\* 1. at least one frontend endpoint
HasEndpoint(c) == Len(Endpoints(c)) >= 1

\* 2. exactly one of redirect_configuration / forwarding_configuration
OneConfiguration(r) == Present(r.redirect_configuration) # Present(r.forwarding_configuration)

\* 3. a forwarding configuration names a pool that exists
PoolResolves(c, r) ==
    Present(r.forwarding_configuration)
        => r.forwarding_configuration[1].backend_pool_name \in PoolNames(c)

\* 4. at least one frontend name, each naming an endpoint that exists
FrontendsResolve(c, r) ==
    /\ Len(r.frontend_endpoints) >= 1
    /\ \A k \in 1..Len(r.frontend_endpoints) : r.frontend_endpoints[k] \in EndpointNames(c)

\* 5. the pool's load_balancing_name names a settings block, when there are any
LoadBalancingResolves(c, p) ==
    LoadBalancingSettingsNames(c) # {} => p.load_balancing_name \in LoadBalancingSettingsNames(c)

\* 6. the pool's health_probe_name names a settings block, when there are any
HealthProbeResolves(c, p) ==
    HealthProbeSettingsNames(c) # {} => p.health_probe_name \in HealthProbeSettingsNames(c)

\* 5 and 6 as worded in the data model: only a name that is set is constrained
LoadBalancingResolvesIfSet(c, p) == p.load_balancing_name # "" => LoadBalancingResolves(c, p)
HealthProbeResolvesIfSet(c, p) == p.health_probe_name # "" => HealthProbeResolves(c, p)

\* 7. a custom_https_configuration block exactly when provisioning is enabled
TlsBlockMatchesFlag(e) ==
    Present(e.custom_https_configuration) <=> e.custom_https_provisioning_enabled

\* 8. key-vault fields all set for the key-vault source, all empty otherwise
KeyVaultFieldsMatchSource(chc) ==
    IF chc.certificate_source = CertificateSourceAzureKeyVault
    THEN "" \notin KeyVaultFields(chc)
    ELSE KeyVaultFields(chc) = {""}

TlsConsistent(e) ==
    /\ TlsBlockMatchesFlag(e)
    /\ Present(e.custom_https_configuration)
           => KeyVaultFieldsMatchSource(e.custom_https_configuration[1])

RuleConsistent(c, r) == OneConfiguration(r) /\ PoolResolves(c, r) /\ FrontendsResolve(c, r)

PoolConsistent(c, p) == LoadBalancingResolves(c, p) /\ HealthProbeResolves(c, p)

\* the eight statements together
Consistent(c) ==
    /\ HasEndpoint(c)
    /\ \A k \in 1..Len(Rules(c)) : RuleConsistent(c, Rules(c)[k])
    /\ \A k \in 1..Len(Pools(c)) : PoolConsistent(c, Pools(c)[k])
    /\ \A k \in 1..Len(Endpoints(c)) : TlsConsistent(Endpoints(c)[k])

\* the eight statements, 5 and 6 as worded
ConsistentAsWorded(c) ==
    /\ HasEndpoint(c)
    /\ \A k \in 1..Len(Rules(c)) : RuleConsistent(c, Rules(c)[k])
    /\ \A k \in 1..Len(Pools(c)) :
           LoadBalancingResolvesIfSet(c, Pools(c)[k]) /\ HealthProbeResolvesIfSet(c, Pools(c)[k])
    /\ \A k \in 1..Len(Endpoints(c)) : TlsConsistent(Endpoints(c)[k])

Returned == pc = "done"

(***************************************************************************)
(* C1  Soundness: a call that returns no error was given a configuration   *)
(* for which all eight statements of the data model hold.                  *)
(***************************************************************************)
C1_Soundness == (Returned /\ err = NoErr) => Consistent(d)

\* a call returned nil for a configuration with a forwarding rule, a pool and a
\* TLS block
C1_Witness ==
    /\ Returned /\ err = NoErr
    /\ \E k \in 1..Len(Rules(d)) : Present(Rules(d)[k].forwarding_configuration)
    /\ Len(Pools(d)) >= 1
    /\ \E k \in 1..Len(Endpoints(d)) : Present(Endpoints(d)[k].custom_https_configuration)

(***************************************************************************)
(* C2  Completeness as claimed: a configuration for which the eight        *)
(* statements hold, 5 and 6 constraining only a name that is set, is       *)
(* accepted.                                                               *)
(***************************************************************************)
C2_CompletenessAsWorded == (Returned /\ ConsistentAsWorded(d)) => err = NoErr

(***************************************************************************)
(* C2 amended: a configuration for which the eight statements hold, 5 and  *)
(* 6 constraining every pool's name (set or empty) whenever the settings   *)
(* collection has entries, is accepted.                                    *)
(***************************************************************************)
C2_Completeness == (Returned /\ Consistent(d)) => err = NoErr

Example1 ==
    Configuration(<<FrontendEndpoint("fe1", FALSE, <<>>)>>,
                  <<RoutingRule("rr1", <<"fe1">>, <<>>, <<ForwardingConfiguration("bp1")>>)>>,
                  <<BackendPool("bp1", "lb1", "hp1")>>,
                  <<Settings("lb1")>>, <<Settings("hp1")>>)

\* the call on end-to-end example 1 returned nil
C2_Witness == Returned /\ d = Example1 /\ err = NoErr

(***************************************************************************)
(* The violations of a configuration, each stated on the configuration     *)
(* alone, listed in the order the specification fixes: endpoint presence;  *)
(* per rule in declaration order neither block, both blocks, dangling      *)
(* backend_pool_name, empty frontend_endpoints, dangling frontend names in *)
(* list order; per pool load-balancing name, health-probe name; per        *)
(* endpoint TLS consistency.                                               *)
(***************************************************************************)

When(cond, v) == IF cond THEN <<v>> ELSE <<>>

PresenceViolations(c) ==
    When(~HasEndpoint(c), Violation("MissingRequiredCollection", "frontend_endpoint", "", "", ""))

BothBlocks(r) == Present(r.redirect_configuration) /\ Present(r.forwarding_configuration)
NeitherBlock(r) == ~Present(r.redirect_configuration) /\ ~Present(r.forwarding_configuration)

ConflictViolation(r) == Violation("ConflictingConfigurationBlocks", "routing_rule", r.name, "", "")

RuleBlockViolations(c, r) ==
    When(NeitherBlock(r), Violation("MissingConfigurationBlock", "routing_rule", r.name, "", ""))
    \o When(BothBlocks(r), ConflictViolation(r))
    \o When(~PoolResolves(c, r),
            Violation("DanglingReference", "routing_rule", r.name, "backend_pool_name",
                      r.forwarding_configuration[1].backend_pool_name))

DanglingFrontend(r, n) ==
    Violation("DanglingReference", "routing_rule", r.name, "frontend_endpoints", n)

RECURSIVE DanglingFrontends(_, _, _)
DanglingFrontends(c, r, k) ==
    IF k > Len(r.frontend_endpoints) THEN <<>>
    ELSE When(r.frontend_endpoints[k] \notin EndpointNames(c),
              DanglingFrontend(r, r.frontend_endpoints[k]))
         \o DanglingFrontends(c, r, k + 1)

RuleFrontendViolations(c, r) ==
    When(Len(r.frontend_endpoints) = 0,
         Violation("MissingRequiredCollection", "routing_rule", r.name, "frontend_endpoints", ""))
    \o DanglingFrontends(c, r, 1)

RuleViolations(c, r) == RuleBlockViolations(c, r) \o RuleFrontendViolations(c, r)

DanglingLoadBalancing(p) ==
    Violation("DanglingReference", "backend_pool", p.name, "load_balancing_name",
              p.load_balancing_name)

DanglingHealthProbe(p) ==
    Violation("DanglingReference", "backend_pool", p.name, "health_probe_name",
              p.health_probe_name)

PoolViolations(c, p) ==
    When(~LoadBalancingResolves(c, p), DanglingLoadBalancing(p))
    \o When(~HealthProbeResolves(c, p), DanglingHealthProbe(p))

TlsViolation(kind, e) ==
    Violation(kind, "frontend_endpoint", e.name, "custom_https_configuration", "")

TlsViolations(e) ==
    LET chc == e.custom_https_configuration
        on == e.custom_https_provisioning_enabled
    IN  When(Present(chc) /\ ~on, TlsViolation("InvalidTlsState", e))
        \o When(Present(chc) /\ ~KeyVaultFieldsMatchSource(chc[1]),
                TlsViolation(IF chc[1].certificate_source = CertificateSourceAzureKeyVault
                             THEN "IncompleteTlsConfig" ELSE "ExtraneousTlsConfig", e))
        \o When(~Present(chc) /\ on, TlsViolation("MissingConfigurationBlock", e))

\* the violations of the first n rules, pools, endpoints
RECURSIVE RulesThrough(_, _)
RulesThrough(c, n) ==
    IF n = 0 THEN <<>> ELSE RulesThrough(c, n - 1) \o RuleViolations(c, Rules(c)[n])

RECURSIVE PoolsThrough(_, _)
PoolsThrough(c, n) ==
    IF n = 0 THEN <<>> ELSE PoolsThrough(c, n - 1) \o PoolViolations(c, Pools(c)[n])

RECURSIVE EndpointsThrough(_, _)
EndpointsThrough(c, n) ==
    IF n = 0 THEN <<>> ELSE EndpointsThrough(c, n - 1) \o TlsViolations(Endpoints(c)[n])

\* the violations that come before those of rule k, pool k, endpoint k
BeforeRule(c, k) == PresenceViolations(c) \o RulesThrough(c, k - 1)
BeforePool(c, k) == BeforeRule(c, Len(Rules(c)) + 1) \o PoolsThrough(c, k - 1)
BeforeEndpoint(c, k) == BeforePool(c, Len(Pools(c)) + 1) \o EndpointsThrough(c, k - 1)

AllViolations(c) == BeforeEndpoint(c, Len(Endpoints(c)) + 1)

FirstViolation(c) == IF AllViolations(c) = <<>> THEN NoErr ELSE AllViolations(c)[1]

(***************************************************************************)
(* C3  Fail-fast ordering: the call returns as soon as a check fails, and  *)
(* what it returns is the violation of the first failing check in the      *)
(* fixed order (nil when no check fails).                                  *)
(***************************************************************************)
C3_FailFast ==
    /\ err # NoErr => Returned
    /\ Returned => err = FirstViolation(d)

\* a call returned a rule's violation for a configuration that also has a
\* pool violation and a TLS violation
C3_Witness ==
    /\ Returned /\ err.section = "routing_rule"
    /\ \E k \in 1..Len(AllViolations(d)) : AllViolations(d)[k].section = "backend_pool"
    /\ \E k \in 1..Len(AllViolations(d)) : AllViolations(d)[k].section = "frontend_endpoint"

(***************************************************************************)
(* C5  as claimed: a configuration with a rule that has both blocks is     *)
(* rejected with ConflictingConfigurationBlocks, whatever else it holds.   *)
(***************************************************************************)
C5_ConflictAlways ==
    (Returned /\ \E k \in 1..Len(Rules(d)) : BothBlocks(Rules(d)[k]))
        => err.kind = "ConflictingConfigurationBlocks"

(***************************************************************************)
(* C5 amended: a configuration with a rule that has both blocks is         *)
(* rejected; the violation is ConflictingConfigurationBlocks naming that   *)
(* rule when a frontend endpoint is defined and every rule declared before *)
(* it is valid, whatever the rules after it, the pools and the endpoints.  *)
(***************************************************************************)
C5_Conflict ==
    \A k \in 1..Len(Rules(d)) :
        (Returned /\ BothBlocks(Rules(d)[k]))
            => /\ err # NoErr
               /\ BeforeRule(d, k) = <<>> => err = ConflictViolation(Rules(d)[k])

\* the conflict of the first rule was returned although the second rule is
\* invalid too
C5_Witness ==
    /\ Returned /\ Len(Rules(d)) >= 2
    /\ BothBlocks(Rules(d)[1]) /\ ~RuleConsistent(d, Rules(d)[2])
    /\ err = ConflictViolation(Rules(d)[1])

(***************************************************************************)
(* C6  A rule that lists frontend names matching no endpoint name (exact,  *)
(* case-sensitive) makes the call fail; when no earlier check fails the    *)
(* violation is the DanglingReference naming the rule and the first        *)
(* unresolved name in list order, whatever comes later in the list and     *)
(* whether or not names before it resolve.                                 *)
(***************************************************************************)
C6_FirstDanglingFrontend ==
    \A k \in 1..Len(Rules(d)) :
        LET r == Rules(d)[k]
            unresolved == {m \in 1..Len(r.frontend_endpoints) :
                               r.frontend_endpoints[m] \notin EndpointNames(d)}
            first == CHOOSE m \in unresolved : \A n \in unresolved : m <= n
        IN  (Returned /\ unresolved # {})
                => /\ err # NoErr
                   /\ BeforeRule(d, k) \o RuleBlockViolations(d, r) = <<>>
                          => err = DanglingFrontend(r, r.frontend_endpoints[first])

\* the second name of a rule was reported after its first name resolved, and
\* it differs from an endpoint name by case only
C6_Witness ==
    /\ Returned /\ err.kind = "DanglingReference" /\ err.field = "frontend_endpoints"
    /\ \E k \in 1..Len(Rules(d)) :
           LET fes == Rules(d)[k].frontend_endpoints
           IN  /\ Rules(d)[k].name = err.name
               /\ Len(fes) >= 2 /\ fes[1] \in EndpointNames(d) /\ fes[2] = err.ref
    /\ err.ref = "FE1" /\ "fe1" \in EndpointNames(d)

(***************************************************************************)
(* C7  An endpoint with provisioning enabled and no TLS block makes the    *)
(* call fail, with MissingConfigurationBlock for that endpoint when no     *)
(* earlier check fails; an endpoint with provisioning disabled and a TLS   *)
(* block makes it fail, with InvalidTlsState for that endpoint when no     *)
(* earlier check fails, whatever the block holds.                          *)
(***************************************************************************)
C7_TlsBlockPresence ==
    \A k \in 1..Len(Endpoints(d)) :
        LET e == Endpoints(d)[k]
            chc == e.custom_https_configuration
            on == e.custom_https_provisioning_enabled
        IN  /\ (Returned /\ on /\ ~Present(chc))
                   => /\ err # NoErr
                      /\ BeforeEndpoint(d, k) = <<>>
                             => err = TlsViolation("MissingConfigurationBlock", e)
            /\ (Returned /\ ~on /\ Present(chc))
                   => /\ err # NoErr
                      /\ BeforeEndpoint(d, k) = <<>> => err = TlsViolation("InvalidTlsState", e)

\* InvalidTlsState was returned for a disabled endpoint whose block has
\* key-vault fields that do not match its certificate source
C7_Witness ==
    /\ Returned /\ err.kind = "InvalidTlsState"
    /\ \E k \in 1..Len(Endpoints(d)) :
           LET e == Endpoints(d)[k]
           IN  /\ BeforeEndpoint(d, k) = <<>>
               /\ ~e.custom_https_provisioning_enabled
               /\ Present(e.custom_https_configuration)
               /\ ~KeyVaultFieldsMatchSource(e.custom_https_configuration[1])

\* MissingConfigurationBlock was returned for an enabled endpoint without block
C7_WitnessMissing ==
    /\ Returned /\ err.kind = "MissingConfigurationBlock" /\ err.section = "frontend_endpoint"

(***************************************************************************)
(* C8  An enabled endpoint with a TLS block makes the call fail when the   *)
(* source is AzureKeyVault and one of the three key-vault fields is empty  *)
(* (IncompleteTlsConfig when no earlier check fails), and when the source  *)
(* is another one and one of the three fields is set (ExtraneousTlsConfig  *)
(* when no earlier check fails); the block passes only with all three set  *)
(* for the key-vault source, all three empty otherwise.                    *)
(***************************************************************************)
C8_KeyVaultFields ==
    \A k \in 1..Len(Endpoints(d)) :
        LET e == Endpoints(d)[k]
            chc == e.custom_https_configuration
            on == e.custom_https_provisioning_enabled
            akv == chc[1].certificate_source = CertificateSourceAzureKeyVault
        IN  (Returned /\ on /\ Present(chc))
                => /\ (akv /\ "" \in KeyVaultFields(chc[1]))
                          => /\ err # NoErr
                             /\ BeforeEndpoint(d, k) = <<>>
                                    => err = TlsViolation("IncompleteTlsConfig", e)
                   /\ (~akv /\ KeyVaultFields(chc[1]) # {""})
                          => /\ err # NoErr
                             /\ BeforeEndpoint(d, k) = <<>>
                                    => err = TlsViolation("ExtraneousTlsConfig", e)
                   /\ err = NoErr
                          => IF akv THEN "" \notin KeyVaultFields(chc[1])
                             ELSE KeyVaultFields(chc[1]) = {""}

\* IncompleteTlsConfig was returned for a key-vault block with exactly one
\* empty field
C8_Witness ==
    /\ Returned /\ err.kind = "IncompleteTlsConfig"
    /\ \E k \in 1..Len(Endpoints(d)) :
           LET e == Endpoints(d)[k]
               chc == e.custom_https_configuration
           IN  /\ BeforeEndpoint(d, k) = <<>>
               /\ e.custom_https_provisioning_enabled /\ Present(chc)
               /\ Cardinality(KeyVaultFields(chc[1])) = 3
               /\ "" \in KeyVaultFields(chc[1])

(***************************************************************************)
(* C10  Settings-reference gating.  With no load-balancing settings no     *)
(* call fails on a pool's load_balancing_name; with settings, a pool whose *)
(* load_balancing_name matches none makes the call fail, with the          *)
(* DanglingReference for it when no earlier check fails.  The same for     *)
(* health_probe_name, whose check comes out the same whether the           *)
(* load-balancing collection is empty or the pool's load_balancing_name    *)
(* resolved in it.                                                         *)
(***************************************************************************)
C10_SettingsGating ==
    /\ (Returned /\ LoadBalancingSettingsNames(d) = {}) => err.field # "load_balancing_name"
    /\ (Returned /\ HealthProbeSettingsNames(d) = {}) => err.field # "health_probe_name"
    /\ \A k \in 1..Len(Pools(d)) :
           LET p == Pools(d)[k]
           IN  /\ (Returned /\ ~LoadBalancingResolves(d, p))
                      => /\ err # NoErr
                         /\ BeforePool(d, k) = <<>> => err = DanglingLoadBalancing(p)
               /\ (Returned /\ ~HealthProbeResolves(d, p))
                      => /\ err # NoErr
                         /\ (BeforePool(d, k) = <<>> /\ LoadBalancingResolves(d, p))
                                => err = DanglingHealthProbe(p)

\* a dangling health_probe_name was returned for a pool whose
\* load_balancing_name had just been found
C10_Witness ==
    /\ Returned /\ err.kind = "DanglingReference" /\ err.field = "health_probe_name"
    /\ LoadBalancingSettingsNames(d) # {}

\* a call returned nil for a pool whose names match nothing, there being no
\* settings at all
C10_WitnessSkipped ==
    /\ Returned /\ err = NoErr
    /\ LoadBalancingSettingsNames(d) = {} /\ HealthProbeSettingsNames(d) = {}
    /\ \E k \in 1..Len(Pools(d)) : Pools(d)[k].load_balancing_name = "LB1"

(***************************************************************************)
(* C4  Totality on absent optional fields: a call on a tree in which       *)
(* optional blocks or collections are absent instead of empty never ends   *)
(* in a panic; it returns nil or one violation.                            *)
(***************************************************************************)
C4_NeverPanics == pc # "panicked"

\* an absent top-level collection is read as empty: such a call returns
C4_AbsentCollectionReturns ==
    /\ Returned
    /\ ~Has(d, "routing_rule") /\ ~Has(d, "backend_pool")

(***************************************************************************)
(* C9  Idempotence and purity: a call on a configuration that an earlier   *)
(* call was given returns what that call returned, whatever calls came in  *)
(* between, and no step of a call changes the configuration.               *)
(***************************************************************************)
C9_Idempotent ==
    /\ []((Returned /\ last # <<>> /\ last[1].d = d) => err = last[1].err)
    /\ [][pc # "done" => d' = d]_vars

\* a configuration was validated a second time and the violation of its first
\* validation was returned again
C9_Witness ==
    /\ Returned /\ last # <<>> /\ last[1].d = d /\ err # NoErr /\ err = last[1].err

====
